---- MODULE Spec2Model ----
(***************************************************************************)
(* Model of backend/main.py of hilbertron: the ProofNode tree, its         *)
(* flattening and queries, the pairing of nodes with their assumptions and *)
(* the per-node validation pipeline (agentic prove run, judge call,        *)
(* outcome mapping).                                                       *)
(*                                                                         *)
(* Python strings are sequences of one-character strings, so that          *)
(* formatting (f"{node_id}_{i}"), str.split, str.strip and int() are       *)
(* computed as the code computes them.  Python's None is NoneVal.          *)
(***************************************************************************)
EXTENDS Integers, Sequences, FiniteSets, TLC

VARIABLES tree, theorem, pc, call, arg, ret,
          nodes_with_assumptions, idx, results, run_result, check, calls

vars == <<tree, theorem, pc, call, arg, ret,
          nodes_with_assumptions, idx, results, run_result, check, calls>>

----------------------------------------------------------------------------
(* Bounds of the model *)

\* largest number of nodes of a tree handed to the parser functions
MaxNodes == 4
\* largest number of nodes of the proof tree of an analysis request
MaxRequestNodes == 3
\* largest length of the judge's raw response
MaxJudgeLen == 2
\* largest number of _<integer> segments of an id handed to find_node_by_id
MaxSegs == 2

----------------------------------------------------------------------------
(* Python values *)

NoneVal == <<"None">>

Digits == <<"0", "1", "2", "3", "4", "5", "6", "7", "8", "9">>

Whitespace == {" "}

RootStr == <<"r", "o", "o", "t">>

\* stands for the theorem text hard-coded in maestro_rag
DefaultTheorem == <<"d", "e", "f", "a", "u", "l", "t">>

IsDigit(c) == \E d \in 1..10 : Digits[d] = c

DigitVal(c) == (CHOOSE d \in 1..10 : Digits[d] = c) - 1

RECURSIVE IntToStr(_)
\* str(i) of a non-negative int, as the f-string of traverse formats it
IntToStr(i) ==
    IF i < 10 THEN <<Digits[i + 1]>>
    ELSE IntToStr(i \div 10) \o <<Digits[(i % 10) + 1]>>

RECURSIVE LStrip(_)
LStrip(s) == IF s # <<>> /\ Head(s) \in Whitespace THEN LStrip(Tail(s)) ELSE s

RECURSIVE RStrip(_)
RStrip(s) ==
    IF s # <<>> /\ s[Len(s)] \in Whitespace
    THEN RStrip(SubSeq(s, 1, Len(s) - 1)) ELSE s

\* str.strip()
Strip(s) == RStrip(LStrip(s))

RECURSIVE SplitAcc(_, _, _)
SplitAcc(s, sep, cur) ==
    IF s = <<>> THEN <<cur>>
    ELSE IF Head(s) = sep THEN <<cur>> \o SplitAcc(Tail(s), sep, <<>>)
    ELSE SplitAcc(Tail(s), sep, Append(cur, Head(s)))

\* str.split(sep) with a one-character separator
Split(s, sep) == SplitAcc(s, sep, <<>>)

RECURSIVE DigitsValue(_, _)
\* value of a digit string in which single underscores may separate digits
DigitsValue(s, acc) ==
    IF s = <<>> THEN acc
    ELSE IF Head(s) = "_" THEN DigitsValue(Tail(s), acc)
    ELSE DigitsValue(Tail(s), 10 * acc + DigitVal(Head(s)))

\* the body of an int literal: digits, single underscores only between digits
IsIntBody(s) ==
    /\ s # <<>>
    /\ \A k \in 1..Len(s) : IsDigit(s[k]) \/ s[k] = "_"
    /\ IsDigit(s[1]) /\ IsDigit(s[Len(s)])
    /\ \A k \in 1..(Len(s) - 1) : ~(s[k] = "_" /\ s[k + 1] = "_")

\* int(s) of a str: [ok |-> TRUE, val |-> n], or [ok |-> FALSE] for ValueError
ParseInt(s) ==
    LET t == Strip(s)
        signed == t # <<>> /\ Head(t) \in {"+", "-"}
        body == IF signed THEN Tail(t) ELSE t
    IN  IF IsIntBody(body)
        THEN [ok |-> TRUE,
              val |-> IF signed /\ Head(t) = "-"
                      THEN 0 - DigitsValue(body, 0) ELSE DigitsValue(body, 0)]
        ELSE [ok |-> FALSE, val |-> 0]

----------------------------------------------------------------------------
(* ProofNode trees *)

Steps == {<<"S">>}

Explanations == {NoneVal}

\* ProofNode(step, explanation, children, is_leaf)
ProofNode(step, explanation, children, is_leaf) ==
    [step |-> step, explanation |-> explanation,
     children |-> children, is_leaf |-> is_leaf]

RECURSIVE TreesOfSize(_), ForestsOfSize(_)
\* every ProofNode tree of exactly n nodes
TreesOfSize(n) ==
    { ProofNode(s, e, cs, l) :
        s \in Steps, e \in Explanations, cs \in ForestsOfSize(n - 1), l \in BOOLEAN }

\* every children list whose subtrees have m nodes in all
ForestsOfSize(m) ==
    IF m = 0 THEN {<<>>}
    ELSE UNION { { <<t>> \o f : t \in TreesOfSize(k), f \in ForestsOfSize(m - k) } :
                 k \in 1..m }

TreesUpTo(max) == UNION { TreesOfSize(n) : n \in 1..max }

----------------------------------------------------------------------------
(* Parser functions *)

extract_node_info(node) ==
    [step |-> node.step, explanation |-> node.explanation,
     is_leaf |-> node.is_leaf, child_count |-> Len(node.children)]

RECURSIVE traverse(_, _, _, _), traverse_children(_, _, _, _)

\* traverse with the record appended after the children's records
traverse_after_children(node, node_id, parent_id, depth) ==
    LET node_info == extract_node_info(node) @@
                     [id |-> node_id, parent_id |-> parent_id, depth |-> depth]
    IN  traverse_children(node.children, 0, node_id, depth) \o <<node_info>>

\* the loop of traverse with child_id = f"{node_id}_{depth}"
traverse_children_depth_id(children, i, node_id, depth) ==
    IF i >= Len(children) THEN <<>>
    ELSE LET child_id == node_id \o <<"_">> \o IntToStr(depth)
         IN  traverse(children[i + 1], child_id, node_id, depth + 1)
             \o traverse_children(children, i + 1, node_id, depth)

\* the records traverse appends to nodes, in the order it appends them
traverse(node, node_id, parent_id, depth) ==
    LET node_info == extract_node_info(node) @@
                     [id |-> node_id, parent_id |-> parent_id, depth |-> depth]
    IN  <<node_info>> \o traverse_children(node.children, 0, node_id, depth)

\* for i, child in enumerate(node.children), from position i on
traverse_children(children, i, node_id, depth) ==
    IF i >= Len(children) THEN <<>>
    ELSE LET child_id == node_id \o <<"_">> \o IntToStr(i)
         IN  traverse(children[i + 1], child_id, node_id, depth + 1)
             \o traverse_children(children, i + 1, node_id, depth)

extract_all_nodes(root) == traverse(root, RootStr, NoneVal, 0)

extract_leaf_nodes(root) ==
    SelectSeq(extract_all_nodes(root), LAMBDA node : node.is_leaf)

\* children[child_index] of a Python list: a negative index counts from the end
PyIndex(list, k) ==
    IF 0 <= k /\ k < Len(list) THEN [raised |-> FALSE, item |-> list[k + 1]]
    ELSE IF k < 0 /\ 0 - k <= Len(list)
         THEN [raised |-> FALSE, item |-> list[Len(list) + k + 1]]
    ELSE [raised |-> TRUE, item |-> NoneVal]

\* what a call returns: a value, None, or the exception it raises
Returned(v) == [kind |-> "value", value |-> v]
ReturnedNone == [kind |-> "None", value |-> NoneVal]
Raised(e) == [kind |-> "raise", value |-> e]

RECURSIVE find_node_walk(_, _, _)
\* for i in range(1, len(parts)), from position i on (parts[i] is parts[i + 1])
find_node_walk(current, parts, i) ==
    IF i >= Len(parts) THEN Returned(current)
    ELSE LET child_index == ParseInt(parts[i + 1])
         IN  IF ~child_index.ok THEN Raised("ValueError")
             ELSE IF child_index.val < Len(current.children)
                  THEN LET child == PyIndex(current.children, child_index.val)
                       IN  IF child.raised THEN Raised("IndexError")
                           ELSE find_node_walk(child.item, parts, i + 1)
                  ELSE ReturnedNone

find_node_by_id(root, target_id) ==
    IF target_id = RootStr THEN Returned(root)
    ELSE find_node_walk(root, Split(target_id, "_"), 1)

\* {node["id"]: node for node in all_nodes}: a later record replaces an earlier one
node_dict_of(all_nodes) ==
    [i \in { all_nodes[k].id : k \in 1..Len(all_nodes) } |->
        all_nodes[CHOOSE k \in 1..Len(all_nodes) :
                    /\ all_nodes[k].id = i
                    /\ \A j \in (k + 1)..Len(all_nodes) : all_nodes[j].id # i]]

Reverse(s) == [k \in 1..Len(s) |-> s[Len(s) + 1 - k]]

RECURSIVE path_walk(_, _, _)
\* the while loop of find_path_to_leaf
path_walk(node_dict, current_id, path) ==
    IF current_id # NoneVal /\ current_id \in DOMAIN node_dict
    THEN path_walk(node_dict, node_dict[current_id].parent_id,
                   Append(path, node_dict[current_id]))
    ELSE path

\* find_path_to_leaf without the final reversal
find_path_to_leaf_unreversed(root, leaf_id) ==
    path_walk(node_dict_of(extract_all_nodes(root)), leaf_id, <<>>)

find_path_to_leaf(root, leaf_id) ==
    Reverse(path_walk(node_dict_of(extract_all_nodes(root)), leaf_id, <<>>))

RECURSIVE group_children(_, _, _)

\* the grouping loop with children_by_parent[parent_id] = [node] on every record
group_children_overwrite(all_nodes, k, children_by_parent) ==
    IF k > Len(all_nodes) THEN children_by_parent
    ELSE LET node == all_nodes[k]
             parent_id == node.parent_id
         IN  IF parent_id # NoneVal
             THEN group_children(all_nodes, k + 1,
                    IF parent_id \in DOMAIN children_by_parent
                    THEN [children_by_parent EXCEPT ![parent_id] = <<node>>]
                    ELSE children_by_parent @@ (parent_id :> <<node>>))
             ELSE group_children(all_nodes, k + 1, children_by_parent)

\* the loop that fills children_by_parent, from record k on
group_children(all_nodes, k, children_by_parent) ==
    IF k > Len(all_nodes) THEN children_by_parent
    ELSE LET node == all_nodes[k]
             parent_id == node.parent_id
         IN  IF parent_id # NoneVal
             THEN group_children(all_nodes, k + 1,
                    IF parent_id \in DOMAIN children_by_parent
                    THEN [children_by_parent EXCEPT ![parent_id] = Append(@, node)]
                    ELSE children_by_parent @@ (parent_id :> <<node>>))
             ELSE group_children(all_nodes, k + 1, children_by_parent)

\* children_by_parent.get(node_id, [])
assumptions_of(children_by_parent, node_id) ==
    IF node_id \in DOMAIN children_by_parent THEN children_by_parent[node_id] ELSE <<>>

\* get_nodes_with_assumptions with the pairs returned last record first
get_nodes_with_assumptions_reversed(root) ==
    LET all_nodes == extract_all_nodes(root)
        children_by_parent == group_children(all_nodes, 1, <<>>)
    IN  Reverse([k \in 1..Len(all_nodes) |->
            <<all_nodes[k], assumptions_of(children_by_parent, all_nodes[k].id)>>])

get_nodes_with_assumptions(root) ==
    LET all_nodes == extract_all_nodes(root)
        children_by_parent == group_children(all_nodes, 1, <<>>)
    IN  [k \in 1..Len(all_nodes) |->
            <<all_nodes[k], assumptions_of(children_by_parent, all_nodes[k].id)>>]

----------------------------------------------------------------------------
(* Validation of one node *)

\* a validation_result that is a str
StrResult(text) == [type |-> "str", value |-> text, awaited |-> FALSE]

\* the coroutine object that calling the async def process_theorem returns:
\* its body has not run, and runs only if the object is awaited
Coroutine(request_theorem) ==
    [type |-> "coroutine", value |-> request_theorem, awaited |-> FALSE]

\* maestro_rag with the test written as a truth test: if int(check):
maestro_rag_outcome_truthy(judge_check, original_theorem) ==
    LET parsed == ParseInt(judge_check)
    IN  IF parsed.ok
        THEN IF parsed.val # 0 THEN StrResult("success") ELSE StrResult("failure")
        ELSE Coroutine(IF original_theorem # NoneVal /\ original_theorem # <<>>
                       THEN original_theorem ELSE DefaultTheorem)

\* maestro_rag with the except branch of rag_python.py: return "error"
maestro_rag_outcome_error(judge_check, original_theorem) ==
    LET parsed == ParseInt(judge_check)
    IN  IF parsed.ok
        THEN IF parsed.val = 1 THEN StrResult("success") ELSE StrResult("failure")
        ELSE StrResult("error")

\* rag_python.py's maestro_rag, from the judge's answer on
rag_python_outcome(judge_check) ==
    LET parsed == ParseInt(judge_check)
    IN  IF parsed.ok
        THEN IF parsed.val = 1 THEN StrResult("success") ELSE StrResult("failure")
        ELSE StrResult("error")

\* maestro_rag, from the judge's answer on: the try around int(check)
maestro_rag_outcome(judge_check, original_theorem) ==
    LET parsed == ParseInt(judge_check)
    IN  IF parsed.ok
        THEN IF parsed.val = 1 THEN StrResult("success") ELSE StrResult("failure")
        ELSE LET theorem_to_use ==
                     IF original_theorem # NoneVal /\ original_theorem # <<>>
                     THEN original_theorem ELSE DefaultTheorem
             IN  Coroutine(theorem_to_use)

\* the result dict of process_node_with_assumptions
node_result(node, assumptions, validation_result) ==
    [step |-> node.step, explanation |-> node.explanation, is_leaf |-> node.is_leaf,
     assumption_count |-> Len(assumptions),
     assumptions |-> [k \in 1..Len(assumptions) |->
                        [step |-> assumptions[k].step,
                         explanation |-> assumptions[k].explanation,
                         is_leaf |-> assumptions[k].is_leaf]],
     validation_result |-> validation_result]

\* validation attempted whatever the assumptions
needs_validation_always(assumptions) == TRUE

\* if assumptions: (an empty list is falsy)
needs_validation(assumptions) == assumptions # <<>>

\* the else branch: validation is skipped
skipped_result(node, assumptions) ==
    node_result(node, assumptions, StrResult("skipped - no assumptions"))

\* an except branch that records the outcome of a failed validation as "failure"
error_result_as_failure(node, assumptions) ==
    node_result(node, assumptions, StrResult("failure"))

\* the except Exception branch around the call of maestro_rag
error_result(node, assumptions) ==
    node_result(node, assumptions, StrResult("error"))

\* results.append(processed_result)
append_result(list, processed_result) == Append(list, processed_result)

\* build_subtree: children only when the node has some
RECURSIVE build_subtree(_)
build_subtree(node) ==
    LET result == [step |-> node.step, explanation |-> node.explanation,
                   is_leaf |-> node.is_leaf]
    IN  IF node.children # <<>>
        THEN result @@ [children |-> [k \in 1..Len(node.children) |->
                                        build_subtree(node.children[k])]]
        ELSE result

build_tree_structure(root) == build_subtree(root)

\* max(node["depth"] for node in all_nodes)
max_depth_of(all_nodes) ==
    CHOOSE d \in { all_nodes[k].depth : k \in 1..Len(all_nodes) } :
        \A k \in 1..Len(all_nodes) : all_nodes[k].depth <= d

\* the result dict of parse_theorem_tree
tree_analysis(root, request_theorem, pairs, processed_nodes) ==
    LET all_nodes == extract_all_nodes(root)
        leaf_nodes == extract_leaf_nodes(root)
    IN  [theorem |-> request_theorem,
         all_nodes |-> all_nodes,
         leaf_nodes |-> leaf_nodes,
         tree_structure |-> build_tree_structure(root),
         node_count |-> Len(all_nodes),
         leaf_count |-> Len(leaf_nodes),
         max_depth |-> max_depth_of(all_nodes),
         nodes_with_assumptions |-> pairs,
         processed_nodes |-> processed_nodes,
         sample_path_to_leaf |->
            IF leaf_nodes # <<>> THEN find_path_to_leaf(root, leaf_nodes[1].id)
            ELSE NoneVal]

\* what process_theorem returns when its body has run
Decomposition(request_theorem, proof_tree, analysis) ==
    [type |-> "decomposition", value |-> request_theorem, awaited |-> TRUE,
     proof_tree |-> proof_tree, tree_analysis |-> analysis]

\* one external call, as the services see it
ExternalCall(svc, node_id, raised) == [svc |-> svc, node |-> node_id, raised |-> raised]

----------------------------------------------------------------------------
(* Inputs *)

Theorems == {NoneVal, <<>>, <<"T">>}

JudgeAlphabet == {"0", "1", "2", "-", "x", " "}

RECURSIVE StringsUpTo(_, _)
StringsUpTo(alphabet, n) ==
    IF n = 0 THEN {<<>>}
    ELSE LET shorter == StringsUpTo(alphabet, n - 1)
         IN  shorter \cup { Append(s, c) : s \in shorter, c \in alphabet }

JudgeTexts == StringsUpTo(JudgeAlphabet, MaxJudgeLen)

RunResults == {<<"p">>}

Segments == {<<"0">>, <<"1">>, <<"2">>, <<"-", "1">>, <<"-", "2">>, <<"x">>}

RECURSIVE IdsUpTo(_)
IdsUpTo(n) ==
    IF n = 0 THEN {RootStr}
    ELSE LET shorter == IdsUpTo(n - 1)
         IN  shorter \cup { id \o <<"_">> \o seg : id \in shorter, seg \in Segments }

TargetIds == IdsUpTo(MaxSegs)

----------------------------------------------------------------------------
(* The parser functions, called on a tree *)

InitParser ==
    /\ tree \in TreesUpTo(MaxNodes)
    /\ theorem = NoneVal
    /\ pc = "idle"
    /\ call = "none" /\ arg = NoneVal /\ ret = ReturnedNone
    /\ nodes_with_assumptions = <<>> /\ idx = 0 /\ results = <<>>
    /\ run_result = NoneVal /\ check = NoneVal /\ calls = <<>>

\* one call of a parser function per run: pc goes from "idle" to "returned"
Unused == <<tree, theorem, nodes_with_assumptions, idx, results,
            run_result, check, calls>>

CallExtractAllNodes ==
    /\ pc = "idle" /\ pc' = "returned"
    /\ call' = "extract_all_nodes" /\ arg' = NoneVal
    /\ ret' = Returned(extract_all_nodes(tree))
    /\ UNCHANGED Unused

CallExtractLeafNodes ==
    /\ pc = "idle" /\ pc' = "returned"
    /\ call' = "extract_leaf_nodes" /\ arg' = NoneVal
    /\ ret' = Returned(extract_leaf_nodes(tree))
    /\ UNCHANGED Unused

CallGetNodesWithAssumptions ==
    /\ pc = "idle" /\ pc' = "returned"
    /\ call' = "get_nodes_with_assumptions" /\ arg' = NoneVal
    /\ ret' = Returned(get_nodes_with_assumptions(tree))
    /\ UNCHANGED Unused

CallFindNodeById ==
    /\ pc = "idle" /\ pc' = "returned"
    /\ \E target_id \in TargetIds :
        /\ call' = "find_node_by_id" /\ arg' = target_id
        /\ ret' = find_node_by_id(tree, target_id)
    /\ UNCHANGED Unused

CallFindPathToLeaf ==
    /\ pc = "idle" /\ pc' = "returned"
    /\ \E leaf_id \in TargetIds :
        /\ call' = "find_path_to_leaf" /\ arg' = leaf_id
        /\ ret' = Returned(find_path_to_leaf(tree, leaf_id))
    /\ UNCHANGED Unused

NextParser ==
    \/ CallExtractAllNodes
    \/ CallExtractLeafNodes
    \/ CallGetNodesWithAssumptions
    \/ CallFindNodeById
    \/ CallFindPathToLeaf

SpecParser == InitParser /\ [][NextParser]_vars

----------------------------------------------------------------------------
(* The tree itself, measured without the parser functions *)

RECURSIVE NodeCount(_), ForestCount(_)
NodeCount(node) == 1 + ForestCount(node.children)
ForestCount(children) ==
    IF children = <<>> THEN 0 ELSE NodeCount(Head(children)) + ForestCount(Tail(children))

RECURSIVE Paths(_)
\* the positions of the nodes of a tree: the child indexes from the root down
Paths(node) ==
    {<<>>} \cup UNION { { <<i>> \o p : p \in Paths(node.children[i + 1]) } :
                        i \in 0..(Len(node.children) - 1) }

RECURSIVE NodeAt(_, _)
NodeAt(node, p) == IF p = <<>> THEN node ELSE NodeAt(node.children[Head(p) + 1], Tail(p))

RECURSIVE IdOfPath(_)
\* the id the data model gives the node at position p: root, root_0, root_0_2, ...
IdOfPath(p) ==
    IF p = <<>> THEN RootStr
    ELSE IdOfPath(SubSeq(p, 1, Len(p) - 1)) \o <<"_">> \o IntToStr(p[Len(p)])

IsProperPrefix(p, q) == Len(p) < Len(q) /\ SubSeq(q, 1, Len(p)) = p

\* p comes before q in depth-first pre-order
PreOrderBefore(p, q) ==
    \/ IsProperPrefix(p, q)
    \/ \E k \in 1..Len(p) :
        /\ k <= Len(q)
        /\ SubSeq(p, 1, k - 1) = SubSeq(q, 1, k - 1)
        /\ p[k] < q[k]

HasId(list, id) == \E k \in 1..Len(list) : list[k].id = id

Pos(list, id) == CHOOSE k \in 1..Len(list) : list[k].id = id

----------------------------------------------------------------------------
(* Claims about the parser functions, checked under SpecParser *)

\* C1: extract_all_nodes returns one record per node of the tree, with pairwise
\* distinct ids; the record with id "root" is the only one whose parent_id is
\* None, and every other record's parent_id is the id of a record of the list.
C1_OneRecordPerNode ==
    call = "extract_all_nodes" =>
        LET list == ret.value
        IN  /\ Len(list) = NodeCount(tree)
            /\ \A p \in Paths(tree) : HasId(list, IdOfPath(p))
            /\ \A j, k \in 1..Len(list) : j # k => list[j].id # list[k].id
            /\ HasId(list, RootStr)
            /\ \A k \in 1..Len(list) :
                (list[k].parent_id = NoneVal) <=> (list[k].id = RootStr)
            /\ \A k \in 1..Len(list) :
                list[k].id # RootStr => HasId(list, list[k].parent_id)

C1_Witness ==
    /\ call = "extract_all_nodes"
    /\ Len(ret.value) >= 4
    /\ \E k \in 1..Len(ret.value) : ret.value[k].child_count >= 2
    /\ \E k \in 1..Len(ret.value) : ret.value[k].depth >= 2

\* C2: the list extract_all_nodes returns is in depth-first pre-order: a node's
\* record comes before the record of each of its descendants, and the records
\* of siblings come in the order of the parent's children sequence.
C2_PreOrder ==
    call = "extract_all_nodes" =>
        LET list == ret.value
        IN  \A p \in Paths(tree) :
                /\ HasId(list, IdOfPath(p))
                /\ list[Pos(list, IdOfPath(p))].depth = Len(p)
                /\ list[Pos(list, IdOfPath(p))].child_count = Len(NodeAt(tree, p).children)
                /\ list[Pos(list, IdOfPath(p))].is_leaf = NodeAt(tree, p).is_leaf
                /\ \A q \in Paths(tree) :
                    (HasId(list, IdOfPath(q)) /\ PreOrderBefore(p, q)) =>
                        Pos(list, IdOfPath(p)) < Pos(list, IdOfPath(q))

C2_Witness ==
    /\ call = "extract_all_nodes"
    /\ \E p, q \in Paths(tree) :
        /\ Len(p) = 2 /\ Len(q) = 1 /\ p[1] < q[1]
        /\ Pos(ret.value, IdOfPath(p)) < Pos(ret.value, IdOfPath(q))

\* C3: get_nodes_with_assumptions returns one (node, assumptions) pair per
\* flattened record, in flattened order; a node's assumptions are exactly the
\* records of its immediate children, in sibling order, and the empty list for
\* a node without children.
C3_AssumptionsAreChildren ==
    call = "get_nodes_with_assumptions" =>
        LET pairs == ret.value
            flat == extract_all_nodes(tree)
        IN  /\ Len(pairs) = Len(flat)
            /\ \A k \in 1..Len(pairs) : pairs[k][1] = flat[k]
            /\ \A p \in Paths(tree) :
                \A k \in 1..Len(pairs) :
                    pairs[k][1].id = IdOfPath(p) =>
                        LET assumptions == pairs[k][2]
                            children == NodeAt(tree, p).children
                        IN  /\ Len(assumptions) = Len(children)
                            /\ \A j \in 1..Len(assumptions) :
                                /\ assumptions[j].id = IdOfPath(Append(p, j - 1))
                                /\ assumptions[j].parent_id = IdOfPath(p)
                                /\ \E m \in 1..Len(flat) : flat[m] = assumptions[j]

C3_Witness ==
    /\ call = "get_nodes_with_assumptions"
    /\ \E k \in 1..Len(ret.value) : Len(ret.value[k][2]) >= 2
    /\ \E k \in 2..Len(ret.value) : Len(ret.value[k][2]) = 1
    /\ \E k \in 1..Len(ret.value) : ret.value[k][2] = <<>>

\* C9: for a flattened record flagged as a leaf, at depth d, find_path_to_leaf
\* called with its id returns d+1 records: the root record first, the target
\* record last, each later record's parent_id the id of the record before it,
\* with depths 0, 1, ..., d.
C9_PathToLeaf ==
    call = "find_path_to_leaf" =>
        \A p \in Paths(tree) :
            (arg = IdOfPath(p) /\ NodeAt(tree, p).is_leaf) =>
                LET path == ret.value
                    d == Len(p)
                IN  /\ Len(path) = d + 1
                    /\ path[1].id = RootStr /\ path[1].parent_id = NoneVal
                    /\ path[d + 1].id = arg /\ path[d + 1].is_leaf
                    /\ \A j \in 1..(d + 1) : path[j].depth = j - 1
                    /\ \A j \in 2..(d + 1) : path[j].parent_id = path[j - 1].id

C9_Witness ==
    /\ call = "find_path_to_leaf"
    /\ \E p \in Paths(tree) :
        /\ arg = IdOfPath(p) /\ NodeAt(tree, p).is_leaf /\ Len(p) >= 2
        /\ Len(ret.value) = Len(p) + 1

\* the integers of the _<integer> segments of an id (every part after "root")
SegmentInts(id) ==
    LET parts == Split(id, "_")
    IN  [k \in 1..(Len(parts) - 1) |-> ParseInt(parts[k + 1])]

\* the id is root followed by zero or more _<integer> segments
IsNodeIdForm(id) ==
    LET parts == Split(id, "_")
    IN  /\ parts[1] = RootStr
        /\ \A k \in 1..(Len(parts) - 1) : ParseInt(parts[k + 1]).ok

RECURSIVE AllInRange(_, _)
\* every index of p is a valid child position of the node reached so far
AllInRange(node, p) ==
    \/ p = <<>>
    \/ /\ 0 <= Head(p) /\ Head(p) < Len(node.children)
       /\ AllInRange(node.children[Head(p) + 1], Tail(p))

\* C10: find_node_by_id, given root followed by _<integer> segments, returns
\* None whenever a segment's integer is not a valid child position (not in
\* 0..child_count-1) of the node reached so far, negative integers and childless
\* nodes included, never a node and never an exception; with every segment in
\* range it returns the node whose flattened id is the given id.
C10_FindNodeById ==
    (call = "find_node_by_id" /\ IsNodeIdForm(arg)) =>
        LET p == [k \in DOMAIN SegmentInts(arg) |-> SegmentInts(arg)[k].val]
        IN  IF AllInRange(tree, p)
            THEN ret.kind = "value" /\ ret.value = NodeAt(tree, p) /\ IdOfPath(p) = arg
            ELSE ret.kind = "None"

----------------------------------------------------------------------------
(* One request: /parse-theorem-tree, or /theorem-proof *)

Init ==
    /\ tree \in TreesUpTo(MaxRequestNodes)
    /\ theorem \in Theorems
    /\ pc = "idle"
    /\ call = "none" /\ arg = NoneVal /\ ret = ReturnedNone
    /\ nodes_with_assumptions = <<>> /\ idx = 0 /\ results = <<>>
    /\ run_result = NoneVal /\ check = NoneVal /\ calls = <<>>

CurNode == nodes_with_assumptions[idx][1]
CurAssumptions == nodes_with_assumptions[idx][2]
InLoop == pc = "loop" /\ idx <= Len(nodes_with_assumptions)

\* POST /parse-theorem-tree with {"theorem": theorem, "proof_tree": tree}: the
\* pairing, and the entry into apply_processing_to_all_nodes
ParseTheoremTree ==
    /\ pc = "idle"
    /\ call' = "parse_theorem_tree" /\ arg' = theorem
    /\ nodes_with_assumptions' = get_nodes_with_assumptions(tree)
    /\ results' = <<>> /\ idx' = 1 /\ pc' = "loop"
    /\ UNCHANGED <<tree, theorem, ret, run_result, check, calls>>

\* POST /theorem-proof: the completion call fails, or its content is not JSON
ProcessTheoremFails ==
    /\ pc = "idle" /\ theorem # NoneVal
    /\ call' = "process_theorem" /\ arg' = theorem
    /\ calls' = Append(calls, ExternalCall("decompose", NoneVal, TRUE))
    /\ ret' = Raised("HTTPException")
    /\ pc' = "done"
    /\ UNCHANGED <<tree, theorem, nodes_with_assumptions, idx, results,
                   run_result, check>>

\* POST /theorem-proof?parse_tree=false: the completion's JSON is the proof tree
ProcessTheoremReturns ==
    /\ pc = "idle" /\ theorem # NoneVal
    /\ call' = "process_theorem" /\ arg' = theorem
    /\ calls' = Append(calls, ExternalCall("decompose", NoneVal, FALSE))
    /\ ret' = Returned(Decomposition(theorem, tree, NoneVal))
    /\ pc' = "done"
    /\ UNCHANGED <<tree, theorem, nodes_with_assumptions, idx, results,
                   run_result, check>>

\* POST /theorem-proof?parse_tree=true: the tree goes on to parse_theorem_tree
ProcessTheoremAnalyses ==
    /\ pc = "idle" /\ theorem # NoneVal
    /\ call' = "process_theorem" /\ arg' = theorem
    /\ calls' = Append(calls, ExternalCall("decompose", NoneVal, FALSE))
    /\ nodes_with_assumptions' = get_nodes_with_assumptions(tree)
    /\ results' = <<>> /\ idx' = 1 /\ pc' = "loop"
    /\ UNCHANGED <<tree, theorem, ret, run_result, check>>

\* process_node_with_assumptions on a pair without assumptions
SkipNode ==
    /\ InLoop /\ ~needs_validation(CurAssumptions)
    /\ results' = append_result(results, skipped_result(CurNode, CurAssumptions))
    /\ idx' = idx + 1
    /\ run_result' = NoneVal /\ check' = NoneVal
    /\ UNCHANGED <<tree, theorem, pc, call, arg, ret, nodes_with_assumptions, calls>>

\* maestro_rag: create_and_poll returns the finished run
ProveReturns ==
    /\ InLoop /\ needs_validation(CurAssumptions)
    /\ calls' = Append(calls, ExternalCall("prove", CurNode.id, FALSE))
    /\ \E result \in RunResults : run_result' = result
    /\ check' = NoneVal
    /\ pc' = "judge"
    /\ UNCHANGED <<tree, theorem, call, arg, ret, nodes_with_assumptions, idx, results>>

\* maestro_rag: create_and_poll raises; process_node_with_assumptions catches it
ProveRaises ==
    /\ InLoop /\ needs_validation(CurAssumptions)
    /\ calls' = Append(calls, ExternalCall("prove", CurNode.id, TRUE))
    /\ results' = append_result(results, error_result(CurNode, CurAssumptions))
    /\ idx' = idx + 1
    /\ run_result' = NoneVal /\ check' = NoneVal
    /\ UNCHANGED <<tree, theorem, pc, call, arg, ret, nodes_with_assumptions>>

\* gpt_call returns the judge's stripped answer; maestro_rag maps it to the
\* outcome, which process_node_with_assumptions records
JudgeReturns ==
    /\ pc = "judge"
    /\ calls' = Append(calls, ExternalCall("judge", CurNode.id, FALSE))
    /\ \E content \in JudgeTexts :
        /\ check' = Strip(content)
        /\ results' = append_result(results,
                        node_result(CurNode, CurAssumptions,
                                    maestro_rag_outcome(Strip(content), theorem)))
    /\ idx' = idx + 1
    /\ pc' = "loop"
    /\ UNCHANGED <<tree, theorem, call, arg, ret, nodes_with_assumptions, run_result>>

\* gpt_call raises (the completion call, or .strip() of a content of None)
JudgeRaises ==
    /\ pc = "judge"
    /\ calls' = Append(calls, ExternalCall("judge", CurNode.id, TRUE))
    /\ results' = append_result(results, error_result(CurNode, CurAssumptions))
    /\ idx' = idx + 1
    /\ pc' = "loop"
    /\ UNCHANGED <<tree, theorem, call, arg, ret, nodes_with_assumptions,
                   run_result, check>>

\* the for loop is over: parse_theorem_tree builds its result, and process_theorem
\* wraps it when the request came through /theorem-proof
Finish ==
    /\ pc = "loop" /\ idx > Len(nodes_with_assumptions)
    /\ ret' = LET analysis == tree_analysis(tree, theorem, nodes_with_assumptions, results)
              IN  IF call = "process_theorem"
                  THEN Returned(Decomposition(theorem, tree, analysis))
                  ELSE Returned(analysis)
    /\ pc' = "done"
    /\ run_result' = NoneVal /\ check' = NoneVal
    /\ UNCHANGED <<tree, theorem, call, arg, nodes_with_assumptions, idx, results, calls>>

Next ==
    \/ ParseTheoremTree
    \/ ProcessTheoremFails
    \/ ProcessTheoremReturns
    \/ ProcessTheoremAnalyses
    \/ SkipNode
    \/ ProveReturns
    \/ ProveRaises
    \/ JudgeReturns
    \/ JudgeRaises
    \/ Finish

Spec == Init /\ [][Next]_vars

----------------------------------------------------------------------------
(* Claims about the validation of a request, checked under Spec *)

Last(list) == list[Len(list)]

\* a judge answer has just been mapped: check holds it, the last result its outcome
JustJudged == pc = "loop" /\ check # NoneVal /\ results # <<>>

LastOutcome == Last(results).validation_result

NodesWithChildren == { p \in Paths(tree) : NodeAt(tree, p).children # <<>> }

CallsFor(node_id) == { c \in 1..Len(calls) : calls[c].node = node_id }

\* C4: a pair with an empty assumptions list gets validation_result
\* "skipped - no assumptions" and neither the prove run nor the judge call is
\* invoked for it; over a tree, the prove calls never outnumber the nodes that
\* have at least one child.
C4_SkipWithoutCalls ==
    /\ \A k \in 1..Len(results) :
        nodes_with_assumptions[k][2] = <<>> =>
            /\ results[k].validation_result.type = "str"
            /\ results[k].validation_result.value = "skipped - no assumptions"
            /\ CallsFor(nodes_with_assumptions[k][1].id) = {}
    /\ Cardinality({ c \in 1..Len(calls) : calls[c].svc = "prove" })
         <= Cardinality(NodesWithChildren)

C4_Witness ==
    /\ pc = "done" /\ Len(results) >= 3
    /\ \E k \in 1..Len(results) :
        /\ nodes_with_assumptions[k][2] = <<>>
        /\ results[k].validation_result.value = "skipped - no assumptions"
    /\ \E c \in 1..Len(calls) : calls[c].svc = "judge"

\* C5: whenever the judge's trimmed response parses as an integer, the outcome is
\* "success" if the integer is 1 and "failure" for every other integer (0,
\* negative, greater than 1); no integer response takes the fallback path.
C5_IntegerOutcome ==
    (JustJudged /\ ParseInt(check).ok) =>
        /\ LastOutcome.type = "str"
        /\ LastOutcome.value = IF ParseInt(check).val = 1 THEN "success" ELSE "failure"
        /\ check \in {<<"0">>, <<"2">>, <<"-", "1">>, <<"-", "2">>, <<"1", "0">>}
              => LastOutcome.value = "failure"
        /\ check \in {<<"1">>, <<"0", "1">>} => LastOutcome.value = "success"
        /\ rag_python_outcome(check) = LastOutcome

C5_Witness ==
    /\ JustJudged /\ check = <<"-", "1">>
    /\ LastOutcome.type = "str" /\ LastOutcome.value = "failure"

\* C6 as stated: "1" gives "success", "0" gives "failure", and "2" or
\* non-numeric text takes the fallback instead of giving "success" or "failure".
C6_AsStated ==
    JustJudged =>
        /\ check = <<"1">> => (LastOutcome.type = "str" /\ LastOutcome.value = "success")
        /\ check = <<"0">> => (LastOutcome.type = "str" /\ LastOutcome.value = "failure")
        /\ (check = <<"2">> \/ ~ParseInt(check).ok) => LastOutcome.type = "coroutine"

\* C6 as amended: "1" gives "success", "0" gives "failure", "2" gives "failure"
\* like every integer other than 1, and only text that int() rejects takes the
\* fallback branch (process_theorem is called with parse_tree=True on the
\* original theorem, or the default one) instead of giving "success" or "failure".
C6_DigitParsing ==
    JustJudged =>
        /\ check = <<"1">> => (LastOutcome.type = "str" /\ LastOutcome.value = "success")
        /\ check = <<"0">> => (LastOutcome.type = "str" /\ LastOutcome.value = "failure")
        /\ check = <<"2">> => (LastOutcome.type = "str" /\ LastOutcome.value = "failure")
        /\ (LastOutcome.type = "coroutine") <=> ~ParseInt(check).ok
        /\ check \in {<<>>, <<"x">>, <<"-">>, <<"1", "x">>, <<"-", "x">>}
              => LastOutcome.type = "coroutine"
        /\ LastOutcome.type = "coroutine" =>
              LastOutcome.value = IF theorem \in {NoneVal, <<>>}
                                  THEN DefaultTheorem ELSE theorem

C6_Witness ==
    /\ JustJudged /\ check = <<"x">> /\ LastOutcome.type = "coroutine"
    /\ \E k \in 1..(Len(results) - 1) :
        /\ results[k].validation_result.type = "str"
        /\ results[k].validation_result.value = "failure"

\* C7: when the judge's response is not parseable as an integer, the pipeline
\* re-invokes process_theorem with analysis enabled on the original theorem (the
\* default one when none, or an empty one, was supplied), that flow runs to
\* completion, and the node's validation_result is the decomposition result it
\* produces.
C7_FallbackRuns ==
    (JustJudged /\ ~ParseInt(check).ok) =>
        /\ LastOutcome.type = "decomposition"
        /\ LastOutcome.awaited
        /\ LastOutcome.value = IF theorem \in {NoneVal, <<>>}
                               THEN DefaultTheorem ELSE theorem
        /\ \E c \in 1..Len(calls) :
            /\ calls[c].svc = "decompose"
            /\ \E j \in 1..(c - 1) : calls[j].svc = "judge"

\* C8: an exception raised by the prove run or the judge call while validating a
\* node is caught, the node's validation_result becomes "error", and processing
\* goes on with the remaining pairs: the returned list has one result per input
\* pair, in the order of the pairs, whatever nodes fail.
C8_ErrorsAreContained ==
    /\ pc \in {"loop", "judge"} => Len(results) = idx - 1
    /\ (pc = "loop" /\ results # <<>> /\ LastOutcome.type = "str"
          /\ LastOutcome.value = "error")
         => ENABLED (SkipNode \/ ProveReturns \/ ProveRaises \/ Finish)
    /\ Len(results) <= Len(nodes_with_assumptions)
    /\ \A k \in 1..Len(results) :
        /\ results[k].step = nodes_with_assumptions[k][1].step
        /\ results[k].is_leaf = nodes_with_assumptions[k][1].is_leaf
        /\ results[k].assumption_count = Len(nodes_with_assumptions[k][2])
        /\ results[k].assumption_count = nodes_with_assumptions[k][1].child_count
        /\ \A j \in 1..Len(results[k].assumptions) :
            results[k].assumptions[j].is_leaf = nodes_with_assumptions[k][2][j].is_leaf
        /\ (\E c \in CallsFor(nodes_with_assumptions[k][1].id) : calls[c].raised)
             <=> (/\ results[k].validation_result.type = "str"
                  /\ results[k].validation_result.value = "error")
    /\ (pc = "done" /\ nodes_with_assumptions # <<>>) =>
        /\ Len(results) = NodeCount(tree)
        /\ Len(results) = Len(nodes_with_assumptions)
        /\ \A k \in 1..Len(results) :
            nodes_with_assumptions[k][1] = extract_all_nodes(tree)[k]

C8_Witness ==
    /\ pc = "done" /\ Len(results) = 3
    /\ results[1].validation_result.value = "error"
    /\ \E c \in 1..Len(calls) : calls[c].svc = "prove" /\ calls[c].raised
    /\ results[2].validation_result.type = "str"
    /\ results[2].validation_result.value = "success"
    /\ results[3].validation_result.value = "skipped - no assumptions"

\* the calls of the validation pipeline: the prove runs and the judge calls
IsValidationCall(c) == calls[c].svc \in {"prove", "judge"}

\* C11: within one analysis request validation is strictly sequential: external
\* calls are issued only for nodes with at least one child, visited in flattened
\* pre-order; a node's prove run is issued and has completed before its judge
\* call is issued, and a node's outcome is recorded before any call for the next
\* node begins, so the calls of two different nodes never interleave.
C11_SequentialValidation ==
    LET flat == extract_all_nodes(tree)
    IN  /\ \A c \in 1..Len(calls) : ~IsValidationCall(c) => c = 1
        /\ \A c \in 1..Len(calls) :
            IsValidationCall(c) =>
                /\ \E p \in NodesWithChildren : IdOfPath(p) = calls[c].node
                /\ HasId(flat, calls[c].node)
                /\ \A d \in (c + 1)..Len(calls) :
                    /\ HasId(flat, calls[d].node)
                    /\ Pos(flat, calls[c].node) <= Pos(flat, calls[d].node)
                    /\ calls[d].node = calls[c].node =>
                        (d = c + 1 /\ calls[c].svc = "prove" /\ calls[d].svc = "judge")
                /\ calls[c].svc = "judge" =>
                    /\ c > 1
                    /\ calls[c - 1].svc = "prove"
                    /\ calls[c - 1].node = calls[c].node
                    /\ ~calls[c - 1].raised
                /\ \/ Pos(flat, calls[c].node) <= Len(results)
                   \/ /\ pc = "judge" /\ c = Len(calls) /\ calls[c].svc = "prove"
                      /\ Pos(flat, calls[c].node) = Len(results) + 1
        /\ pc = "judge" =>
            /\ calls # <<>> /\ Last(calls).svc = "prove" /\ ~Last(calls).raised
            /\ Last(calls).node = CurNode.id
            /\ Len(results) = idx - 1
        /\ \A k \in 1..Len(results) :
            (k <= Len(flat) /\ flat[k].child_count >= 1) =>
                \E c \in 1..Len(calls) :
                    calls[c].svc = "prove" /\ calls[c].node = flat[k].id

C11_Witness ==
    /\ pc = "done" /\ Len(results) = 3
    /\ \E c \in 1..Len(calls) :
        /\ c + 3 <= Len(calls)
        /\ calls[c].svc = "prove" /\ calls[c + 1].svc = "judge"
        /\ calls[c].node = RootStr /\ calls[c + 1].node = RootStr
        /\ calls[c + 2].svc = "prove" /\ calls[c + 3].svc = "judge"
        /\ calls[c + 2].node = IdOfPath(<<0>>) /\ calls[c + 3].node = IdOfPath(<<0>>)
    /\ results[3].validation_result.value = "skipped - no assumptions"

====
